---- MODULE Spec2Model ----
(***************************************************************************)
(* State-machine model of the input pipeline (DataPipeline.py) and of the  *)
(* encoder/decoder training steps (LanguageModels.py).                     *)
(*                                                                         *)
(* Tensors are sequences: a feature matrix x is a sequence of time rows,   *)
(* each row a sequence of num_features numbers; a label vector y is a      *)
(* sequence of integers.  A dataset element is the tuple (x, y, sx, sy) of *)
(* _read_tfrecords, kept as a record.  A batch is the sequence of its      *)
(* (padded) elements.                                                      *)
(***************************************************************************)
EXTENDS Integers, Sequences, FiniteSets, TLC

\* ------------------------------------------------------------------ FLAGS
\* Values of FLAGS.py, scaled down so that the state space stays finite and
\* small; the relations the code relies on are kept (min_time < max_time,
\* bucket_width > 1, several buckets, batch size > 1).
num_features == 3        \* FLAGS.num_features (123)
min_time == 2            \* FLAGS.min_time (100)
max_time == 5            \* FLAGS.max_time (3000)
bucket_width == 3        \* FLAGS.bucket_width (100)
batch_size_per_GPU == 2  \* FLAGS.batch_size_per_GPU (8)
feature_pad_val == 0     \* FLAGS.feature_pad_val (0.0)
label_pad_val == -1      \* FLAGS.label_pad_val (-1)

num_train_data == 2      \* FLAGS.num_train_data (24406)
num_test_data == 1       \* FLAGS.num_test_data (2398)
default_cycle_length == 8  \* _read_tfrecords(cycle_length=8)
min_len == 2             \* test_step(min_len=2)
log_period == 2          \* main_train: `batch % 100 == 0` (100)

\* ----------------------------------------------------------------- bounds
max_length == 3          \* FLAGS.enc_dec_hyperparams["max_length"]
MaxInputLen == 3         \* longest input_seq handed to test_step
MaxTargetLen == 2        \* longest target_seq_in handed to train_step
MaxSubfolders == 2       \* folders below load_dir
MaxLen == 7              \* longest feature sequence stored in a record
MaxSy == 2               \* longest label sequence stored in a record
MaxBandTime == 2         \* largest bandwidth_time passed to load_datasets
MaxEpochs == 3           \* largest n_epochs passed to main_train
MaxTestBatches == 3      \* most batches test_ds yields in one iteration

\* Python's None (a record, so that it compares with the objects it stands for)
None == [none |-> TRUE]

VARIABLES
    \* _bucket_and_batch: the state of bucket_by_sequence_length
    windows,        \* bucket id -> elements waiting for their batch to fill
    eof,            \* the input dataset is exhausted
    batch,          \* the batch last emitted by _bucket_and_batch (<<>>: none)
    \* SpecAug maps applied to the emitted batch
    stage,          \* "idle" | "batched" | "time_masked" | "freq_masked" | "error_time" | "error_freq"
    sa_time,        \* SpecAug(axis=0, bandwidth=bandwidth_time)
    sa_freq,        \* SpecAug(axis=1, bandwidth=bandwidth_freq)
    tmasked,        \* the batch after sa_time.mask
    fmasked         \* the batch after sa_freq.mask

pipeVars == <<windows, eof, batch, stage, sa_time, sa_freq, tmasked, fmasked>>

VARIABLES
    \* load_datasets
    tree,           \* what os.walk(load_dir) yields: the folders, top-down
    data_aug,       \* the parameter data_aug
    shuffle_perm,   \* the order FLAGS.shuffle_seed gives ds.shuffle's output
    pos,            \* the folder the for loop visits next
    lpc,            \* "walk" | "batch" | "returned" | "raised"
    ds_train,       \* the dataset objects (None: not assigned)
    ds_test,
    first_train,    \* the elements ds_train (ds_test) yielded when it was
    last_train,     \*   iterated first and when it was iterated last
    first_test,     \*   (None: not iterated yet), as [elems |-> sequence]
    last_test

loadVars == <<tree, data_aug, shuffle_perm, pos, lpc, ds_train, ds_test,
              first_train, last_train, first_test, last_test>>

VARIABLES
    \* train_step and test_step (LanguageModels.py)
    lm_pc,          \* "idle" | "train_done" | "decode" | "test_done"
    input_seq,      \* the shape of input_seq: [batch, len]
    target_seq_in,  \* train_step's target_seq_in: per sample, its tokens
    en_calls,       \* how often the encoder was called
    de_calls,       \* the inputs of the decoder calls, in order
    de_inputs,      \* test_step's local de_inputs
    full_outputs,   \* test_step's local full_outputs (None, or per sample
                    \*   the logits of every time step)
    lm_result       \* what the step returned (None: nothing yet)

lmVars == <<lm_pc, input_seq, target_seq_in, en_calls, de_calls, de_inputs,
            full_outputs, lm_result>>

VARIABLES
    \* main_train (LanguageModels.py)
    mt_pc,          \* "idle" | "epoch" | "test" | "test_end" | "returned"
    n_epochs,       \* the parameter n_epochs
    test_ds,        \* the parameter test_ds: None, or [batches |-> how many
                    \*   batches an iteration over it yields]
    epoch,          \* the loop variable e of `for e in range(n_epochs)`
    test_batch,     \* the index enumerate(test_ds) gives next
    accuracy_sum,   \* the local accuracy_sum of the test loop
    test_accuracies,            \* the list test_accuracies
    epoch_mean_test_accuracy,   \* the list epoch_mean_test_accuracy
    saves,          \* the epochs at whose end checkpoint.save was called
    epoch_accuracy  \* per finished epoch, sum and number of the accuracies
                    \*   test_step returned in it

trainVars == <<mt_pc, n_epochs, test_ds, epoch, test_batch, accuracy_sum,
               test_accuracies, epoch_mean_test_accuracy, saves,
               epoch_accuracy>>

vars == <<pipeVars, loadVars, lmVars, trainVars>>

\* What the operations of one part leave alone: the variables of the others.
notPipeVars == <<loadVars, lmVars, trainVars>>

notLoadVars == <<pipeVars, lmVars, trainVars>>

notLmVars == <<pipeVars, loadVars, trainVars>>

notTrainVars == <<pipeVars, loadVars, lmVars>>

\* A raised exception, where a value was expected
Raised == [raised |-> TRUE]

\* ---------------------------------------------------------------- helpers
Max(S) == CHOOSE m \in S : \A n \in S : n <= m

Min(S) == CHOOSE m \in S : \A n \in S : m <= n

Range(s) == {s[i] : i \in DOMAIN s}

\* ------------------------------------------------------ records on disk
\* The content of a stored record with n feature rows and m labels.  The
\* values depend on the record and on the position, are never the feature
\* padding value and never the label padding value.
RecordX(n, m) ==
    [i \in 1..n |-> [j \in 1..num_features |-> 1000 * n + 100 * m + 10 * i + j]]

RecordY(n, m) == [k \in 1..m |-> (n + m + k) % 4]

\* _read_tfrecords' final map: (x, y) -> (x, y, tf.shape(x)[0], tf.size(y)).
\* src is a ghost field naming the stored record; no operation reads it.
WithSizes(x, y, src) ==
    [x |-> x, y |-> y, sx |-> Len(x), sy |-> Len(y), src |-> src]

ReadRecord(n, m) == WithSizes(RecordX(n, m), RecordY(n, m), [n |-> n, m |-> m])

Records == {ReadRecord(n, m) : n \in 1..MaxLen, m \in 1..MaxSy}

\* ------------------------------------------------------ _bucket_and_batch
\* list(range(start, stop, step)) for step > 0
PyRange(start, stop, step) ==
    IF stop <= start THEN <<>>
    ELSE [k \in 1..((stop - start + step - 1) \div step) |-> start + (k - 1) * step]

bucket_boundaries == PyRange(min_time, max_time + 1, bucket_width)

num_buckets == Len(bucket_boundaries) + 1

bucket_batch_sizes == [k \in 0..(num_buckets - 1) |-> batch_size_per_GPU]

\* (mutant) bucketing by the label length instead of the feature length
element_length_func_sy(e) == e.sy

\* element_length_func = lambda x, y, size_x, size_y: size_x
element_length_func(e) == e.sx

\* bucket_by_sequence_length: the first bucket k (0-based) with
\* buckets_min[k] <= length < buckets_max[k], where buckets_min is the
\* boundaries with -infinity in front and buckets_max the boundaries with
\* +infinity behind.
BucketOf(length) ==
    Min({k \in 0..(num_buckets - 1) :
            /\ (k = 0 \/ bucket_boundaries[k] <= length)
            /\ (k = num_buckets - 1 \/ length < bucket_boundaries[k + 1])})

PadFeatures(x, rows) ==
    [i \in 1..rows |->
        IF i <= Len(x) THEN x[i] ELSE [j \in 1..num_features |-> feature_pad_val]]

\* (mutant) labels padded with the feature padding value
PadLabelsFeatureVal(y, n) ==
    [k \in 1..n |-> IF k <= Len(y) THEN y[k] ELSE feature_pad_val]

PadLabels(y, n) == [k \in 1..n |-> IF k <= Len(y) THEN y[k] ELSE label_pad_val]

\* padded_batch with padded_shapes ([None, num_features], [None], [], []):
\* every component is padded to the longest of the batch, scalars are kept.
PaddedBatch(w) ==
    LET rows == Max({Len(w[i].x) : i \in DOMAIN w})
        labs == Max({Len(w[i].y) : i \in DOMAIN w})
    IN  [i \in DOMAIN w |->
            [x |-> PadFeatures(w[i].x, rows), y |-> PadLabels(w[i].y, labs),
             sx |-> w[i].sx, sy |-> w[i].sy, src |-> w[i].src]]

\* One element of the input dataset reaches bucket_by_sequence_length: it
\* joins the window of its bucket, and a window that holds
\* bucket_batch_sizes[k] elements is emitted as one padded batch.
Feed(e) ==
    /\ ~eof
    /\ stage = "idle"
    /\ LET k == BucketOf(element_length_func(e))
           w == Append(windows[k], e)
       IN  IF Len(w) >= bucket_batch_sizes[k]
           THEN /\ windows' = [windows EXCEPT ![k] = <<>>]
                /\ batch' = PaddedBatch(w)
                /\ stage' = "batched"
           ELSE /\ windows' = [windows EXCEPT ![k] = w]
                /\ UNCHANGED <<batch, stage>>
    /\ UNCHANGED <<eof, sa_time, sa_freq, tmasked, fmasked>>
    /\ UNCHANGED notPipeVars

EndOfInput ==
    /\ ~eof
    /\ stage = "idle"
    /\ eof' = TRUE
    /\ UNCHANGED <<windows, batch, stage, sa_time, sa_freq, tmasked, fmasked>>
    /\ UNCHANGED notPipeVars

\* At the end of the input every window that is not empty is emitted as a
\* last, smaller batch.
Flush(k) ==
    /\ eof
    /\ stage = "idle"
    /\ windows[k] # <<>>
    /\ windows' = [windows EXCEPT ![k] = <<>>]
    /\ batch' = PaddedBatch(windows[k])
    /\ stage' = "batched"
    /\ UNCHANGED <<eof, sa_time, sa_freq, tmasked, fmasked>>
    /\ UNCHANGED notPipeVars

\* The consumer (prefetch and the training loop) takes the batch.
Deliver ==
    /\ stage \in {"batched", "freq_masked"}
    /\ stage = "batched" => sa_time = None
    /\ stage' = "idle"
    /\ batch' = <<>>
    /\ tmasked' = <<>>
    /\ fmasked' = <<>>
    /\ UNCHANGED <<windows, eof, sa_time, sa_freq>>
    /\ UNCHANGED notPipeVars

\* ---------------------------------------------------------------- SpecAug
\* SpecAug.__init__
SpecAugInit(axis, bandwidth) ==
    [axis |-> IF axis \in {0, 1} THEN axis ELSE 0, bandwidth |-> bandwidth]

\* (mutant) a transposition that also reverses the order of the entries
TransposeReversed(m, inner) ==
    [j \in 1..inner |-> [i \in 1..Len(m) |-> m[i][inner + 1 - j]]]

\* tf.transpose(m, (1, 0)) of a matrix whose rows have `inner` entries
Transpose(m, inner) == [j \in 1..inner |-> [i \in 1..Len(m) |-> m[i][j]]]

\* tf.concat((tf.ones((tm_lb,)), tf.zeros((bandwidth,)), tf.ones((nrows - tm_ub,))))
BandMask(tm_lb, bandwidth, nrows) ==
    LET tm_ub == tm_lb + bandwidth
    IN  [i \in 1..tm_lb |-> TRUE] \o [i \in 1..bandwidth |-> FALSE]
            \o [i \in 1..(nrows - tm_ub) |-> TRUE]

\* tf.boolean_mask(x, mask): the rows of x at the positions where mask is
\* true, in order.  The rows of x beyond the length of the mask are not
\* selected (the mask is turned into indices, which are gathered).
BooleanMask(x, mask) ==
    LET kept == {i \in DOMAIN mask : mask[i]}
        nth(k) == CHOOSE i \in kept : Cardinality({j \in kept : j <= i}) = k
    IN  [k \in 1..Cardinality(kept) |-> x[nth(k)]]

\* _mask_sample: nrows and nrows_max per axis
NRows(sa, e) == IF sa.axis = 0 THEN e.sx ELSE num_features

NRowsMax(sa, e, sx_max) == IF sa.axis = 0 THEN sx_max ELSE NRows(sa, e)

\* bandwidth = self.bandwidth - nrows_max + nrows
Bandwidth(sa, e, sx_max) == sa.bandwidth - NRowsMax(sa, e, sx_max) + NRows(sa, e)

\* tf.random.uniform([], 0, nrows - bandwidth, dtype=tf.int32): the values it
\* can draw; it raises when the range is empty.
LowerBounds(sa, e, sx_max) == 0..(NRows(sa, e) - Bandwidth(sa, e, sx_max) - 1)

\* _mask_sample raises: no lower bound to draw, or a negative dimension
\* handed to tf.zeros.
MaskRaises(sa, e, sx_max) ==
    \/ LowerBounds(sa, e, sx_max) = {}
    \/ Bandwidth(sa, e, sx_max) < 0

\* (mutant) the band is set to zero instead of being removed
MaskSampleZeroing(sa, e, sx_max, tm_lb) ==
    LET nrows == NRows(sa, e)
        mask == BandMask(tm_lb, Bandwidth(sa, e, sx_max), nrows)
        x1 == IF sa.axis = 1 THEN Transpose(e.x, num_features) ELSE e.x
        x2 == [i \in DOMAIN x1 |->
                 IF i <= Len(mask) /\ ~mask[i]
                 THEN [j \in DOMAIN x1[i] |-> feature_pad_val] ELSE x1[i]]
        x3 == IF sa.axis = 1 THEN Transpose(x2, Len(e.x)) ELSE x2
    IN  [e EXCEPT !.x = x3]

\* _mask_sample with the drawn lower bound tm_lb
MaskSample(sa, e, sx_max, tm_lb) ==
    LET nrows == NRows(sa, e)
        mask == BandMask(tm_lb, Bandwidth(sa, e, sx_max), nrows)
        x1 == IF sa.axis = 1 THEN Transpose(e.x, num_features) ELSE e.x
        x2 == BooleanMask(x1, mask)
        x3 == IF sa.axis = 1 THEN Transpose(x2, Len(e.x)) ELSE x2
    IN  [e EXCEPT !.x = x3]

\* tf.ensure_shape at the end of _mask_sample
EnsureShape(sa, e) ==
    \A i \in DOMAIN e.x :
        Len(e.x[i]) = IF sa.axis = 0 THEN num_features
                                     ELSE num_features - sa.bandwidth

\* tf.map_fn stacks the results: they must agree in shape.
Stackable(out) ==
    \A i, j \in DOMAIN out :
        /\ Len(out[i].x) = Len(out[j].x)
        /\ Len(out[i].y) = Len(out[j].y)
        /\ \A r \in DOMAIN out[i].x : Len(out[i].x[r]) = Len(out[j].x[r])

\* SpecAug.mask on a batch b: the batches it can return ({}: it raises).
Mask(sa, b) ==
    LET sx_max == Max({b[i].sx : i \in DOMAIN b})
    IN  IF \E i \in DOMAIN b : MaskRaises(sa, b[i], sx_max) THEN {}
        ELSE LET draws == {lbs \in [DOMAIN b -> 0..(MaxLen + num_features)] :
                             \A i \in DOMAIN b : lbs[i] \in LowerBounds(sa, b[i], sx_max)}
                 outs == {[i \in DOMAIN b |-> MaskSample(sa, b[i], sx_max, lbs[i])]
                             : lbs \in draws}
             IN  {out \in outs : Stackable(out)
                                  /\ \A i \in DOMAIN out : EnsureShape(sa, out[i])}

\* ds_train.map(sa_time.mask)
TimeMask ==
    /\ stage = "batched"
    /\ sa_time # None
    /\ IF Mask(sa_time, batch) = {}
       THEN stage' = "error_time" /\ UNCHANGED tmasked
       ELSE \E out \in Mask(sa_time, batch) :
                tmasked' = out /\ stage' = "time_masked"
    /\ UNCHANGED <<windows, eof, batch, sa_time, sa_freq, fmasked>>
    /\ UNCHANGED notPipeVars

\* .map(sa_freq.mask)
FreqMask ==
    /\ stage = "time_masked"
    /\ IF Mask(sa_freq, tmasked) = {}
       THEN stage' = "error_freq" /\ UNCHANGED fmasked
       ELSE \E out \in Mask(sa_freq, tmasked) :
                fmasked' = out /\ stage' = "freq_masked"
    /\ UNCHANGED <<windows, eof, batch, sa_time, sa_freq, tmasked>>
    /\ UNCHANGED notPipeVars

\* ---------------------------------------------------------- load_datasets
\* File names are sequences of parts, so that '.tfrecord' in f is a search.
FileA == <<"a", ".tfrecord">>

FileB == <<"b", ".tfrecord">>

FileN == <<"notes", ".txt">>

\* The listings a folder can have.
FileLists == {<<FileN>>, <<FileA, FileN>>, <<FileA, FileB>>}

\* The records stored in a file.
RecordsIn(f) == IF f = FileA THEN 2 ELSE 1

\* '.tfrecord' in f
IsTfrecord(f) == \E i \in DOMAIN f : f[i] = ".tfrecord"

\* files = [f for f in files if '.tfrecord' in f]
TfrecordFiles(files) == SelectSeq(files, IsTfrecord)

\* fullpaths = [os.path.join(path, f) for f in files]; the path of a folder
\* is its place in the walk.
FullPaths(path, files) == [i \in DOMAIN files |-> <<path, files[i]>>]

\* The samples of the file at a full path, in the order they are stored.
Content(fullpath) == [k \in 1..RecordsIn(fullpath[2]) |-> <<fullpath, k>>]

Perms(n) ==
    {f \in [1..n -> 1..n] : \A i, j \in 1..n : f[i] = f[j] => i = j}

\* A dataset object: what _read_tfrecords was called with, and the
\* transformations applied since, in order.
ReadStages == <<"list_files", "interleave_parse", "map_sizes">>

\* _read_tfrecords; Dataset.list_files raises when no file matches.
ReadTfrecords(file_names, shuffle, block_length, cycle_length) ==
    IF file_names = <<>> THEN Raised
    ELSE [file_names |-> file_names, shuffle |-> shuffle,
          block_length |-> block_length, cycle_length |-> cycle_length,
          ops |-> ReadStages]

\* (mutant) a method call on None gives None instead of raising
ApplyNoneTolerant(ds, op) ==
    IF ds = None THEN None ELSE [ds EXCEPT !.ops = Append(@, op)]

\* A method call ds.<op>(...) (ds.apply in _bucket_and_batch, ds.map,
\* ds.shuffle, ds.take, ds.skip, ds.prefetch): on None it raises.
Apply(ds, op) ==
    IF ds = None \/ ds = Raised THEN Raised
    ELSE [ds EXCEPT !.ops = Append(@, op)]

RECURSIVE ApplyAll(_, _)
ApplyAll(ds, ops) ==
    IF ops = <<>> THEN ds ELSE ApplyAll(Apply(ds, Head(ops)), Tail(ops))

\* (mutant) every folder that is not 'test' is read as the training data
BranchElseTrain(folder_name, files) ==
    IF folder_name = "" /\ Len(files) > 0 THEN "joined"
    ELSE IF folder_name = "test" THEN "test"
    ELSE "train"

\* The branch the loop body takes for a folder.
Branch(folder_name, files) ==
    IF folder_name = "" /\ Len(files) > 0 THEN "joined"
    ELSE IF folder_name = "test" THEN "test"
    ELSE IF folder_name = "train" THEN "train"
    ELSE "continue"

\* One pass of `for path, subfolders, files in path_gen`.
WalkStep ==
    /\ lpc = "walk"
    /\ pos <= Len(tree)
    /\ LET folder_name == tree[pos].name
           files == TfrecordFiles(tree[pos].files)
           fullpaths == FullPaths(pos, files)
           branch == Branch(folder_name, files)
           num_data == num_train_data + num_test_data
           ds == Apply(ReadTfrecords(fullpaths, TRUE, num_data, 1), "shuffle")
           rd == ReadTfrecords(fullpaths, FALSE,
                               IF branch = "test" THEN num_test_data
                                                  ELSE num_train_data,
                               default_cycle_length)
       IN  CASE branch = "joined" ->
                  /\ ds_train' = Apply(ds, "take")
                  /\ ds_test' = Apply(ds, "skip")
                  /\ lpc' = "batch"
                  /\ pos' = pos
             [] branch = "test" ->
                  /\ ds_test' = IF rd = Raised THEN ds_test ELSE rd
                  /\ lpc' = IF rd = Raised THEN "raised" ELSE "walk"
                  /\ pos' = pos + 1
                  /\ UNCHANGED ds_train
             [] branch = "train" ->
                  /\ ds_train' = IF rd = Raised THEN ds_train ELSE rd
                  /\ lpc' = IF rd = Raised THEN "raised" ELSE "walk"
                  /\ pos' = pos + 1
                  /\ UNCHANGED ds_test
             [] OTHER ->
                  /\ pos' = pos + 1
                  /\ UNCHANGED <<lpc, ds_train, ds_test>>
    /\ UNCHANGED <<tree, data_aug, shuffle_perm,
                   first_train, last_train, first_test, last_test>>
    /\ UNCHANGED notLoadVars

\* os.walk is exhausted.
WalkEnd ==
    /\ lpc = "walk"
    /\ pos > Len(tree)
    /\ lpc' = "batch"
    /\ UNCHANGED <<tree, data_aug, shuffle_perm, pos, ds_train, ds_test,
                   first_train, last_train, first_test, last_test>>
    /\ UNCHANGED notLoadVars

\* (mutant) the maps are applied after the shuffle
TrainStagesShuffleFirst(aug) ==
    <<"bucket_batch", "shuffle">>
        \o (IF aug THEN <<"time_mask", "freq_mask">> ELSE <<>>)
        \o <<"prefetch">>

\* The transformations load_datasets applies to ds_train after the walk
TrainStages(aug) ==
    <<"bucket_batch">>
        \o (IF aug THEN <<"time_mask", "freq_mask">> ELSE <<>>)
        \o <<"shuffle", "prefetch">>

\* ... and to ds_test
TestStages == <<"bucket_batch", "prefetch">>

\* The rest of load_datasets: the two pipelines are built and returned; a
\* method call on None raises and ends the function.
Finish ==
    /\ lpc = "batch"
    /\ LET tr == ApplyAll(ds_train, TrainStages(data_aug))
           te == ApplyAll(ds_test, TestStages)
       IN  IF tr = Raised
           THEN lpc' = "raised" /\ UNCHANGED <<ds_train, ds_test>>
           ELSE IF te = Raised
           THEN lpc' = "raised" /\ ds_train' = tr /\ UNCHANGED ds_test
           ELSE lpc' = "returned" /\ ds_train' = tr /\ ds_test' = te
    /\ UNCHANGED <<tree, data_aug, shuffle_perm, pos,
                   first_train, last_train, first_test, last_test>>
    /\ UNCHANGED notLoadVars

\* Dataset.list_files(file_names, shuffle, seed): the orders in which one
\* iteration can list the files.  With shuffle the list goes through
\* Dataset.shuffle(seed=seed) with reshuffle_each_iteration left at its
\* default: the order is drawn anew each time the dataset is iterated.
ListFiles(file_names, shuffle) ==
    IF shuffle
    THEN {[i \in DOMAIN file_names |-> file_names[p[i]]]
             : p \in Perms(Len(file_names))}
    ELSE {file_names}

\* files.interleave(TFRecordDataset, cycle_length, block_length): up to
\* cycle_length files are open; block_length elements are taken from each in
\* turn; a file that is exhausted is replaced by the next one.
RECURSIVE InterleaveFrom(_, _, _, _, _)
InterleaveFrom(slots, i, pending, block_length, out) ==
    LET next == (i % Len(slots)) + 1
    IN  IF pending = <<>> /\ \A k \in DOMAIN slots : slots[k] = <<>> THEN out
        ELSE IF slots[i] = <<>>
        THEN IF pending # <<>>
             THEN InterleaveFrom([slots EXCEPT ![i] = Content(Head(pending))],
                                 i, Tail(pending), block_length, out)
             ELSE InterleaveFrom(slots, next, pending, block_length, out)
        ELSE LET n == IF Len(slots[i]) < block_length THEN Len(slots[i])
                                                     ELSE block_length
             IN  InterleaveFrom(
                     [slots EXCEPT ![i] = SubSeq(@, n + 1, Len(@))],
                     next, pending, block_length,
                     out \o SubSeq(slots[i], 1, n))

Interleave(files, cycle_length, block_length) ==
    InterleaveFrom([k \in 1..cycle_length |-> <<>>], 1, files, block_length, <<>>)

\* What one transformation makes of the sequence of samples.  ds.shuffle with
\* the fixed seed and reshuffle_each_iteration=False draws the same positions
\* each time; batching, masking and prefetching keep the samples.
Transform(op, elems) ==
    CASE op = "shuffle" /\ Len(shuffle_perm) = Len(elems) ->
            [i \in DOMAIN elems |-> elems[shuffle_perm[i]]]
      [] op = "take" ->
            SubSeq(elems, 1, IF Len(elems) < num_train_data THEN Len(elems)
                                                           ELSE num_train_data)
      [] op = "skip" -> SubSeq(elems, num_train_data + 1, Len(elems))
      [] OTHER -> elems

RECURSIVE TransformAll(_, _)
TransformAll(ops, elems) ==
    IF ops = <<>> THEN elems
    ELSE TransformAll(Tail(ops), Transform(Head(ops), elems))

\* The samples one iteration of ds yields when its files are listed in `order`
\* (up to the last split; the later stages keep the samples).
Elements(ds, order) ==
    LET ops == SubSeq(ds.ops, Len(ReadStages) + 1, Len(ds.ops))
        upto == IF \E i \in DOMAIN ops : ops[i] \in {"take", "skip"}
                THEN SubSeq(ops, 1, CHOOSE i \in DOMAIN ops : ops[i] \in {"take", "skip"})
                ELSE <<>>
    IN  TransformAll(upto, Interleave(order, ds.cycle_length, ds.block_length))

\* `for batch in ds_train`: one iteration over the training dataset
IterTrain ==
    /\ lpc = "returned"
    /\ \E order \in ListFiles(ds_train.file_names, ds_train.shuffle) :
          /\ last_train' = [elems |-> Elements(ds_train, order)]
          /\ first_train' = IF first_train = None THEN last_train' ELSE first_train
    /\ UNCHANGED <<tree, data_aug, shuffle_perm, pos, lpc, ds_train, ds_test,
                   first_test, last_test>>
    /\ UNCHANGED notLoadVars

\* one iteration over the test dataset
IterTest ==
    /\ lpc = "returned"
    /\ \E order \in ListFiles(ds_test.file_names, ds_test.shuffle) :
          /\ last_test' = [elems |-> Elements(ds_test, order)]
          /\ first_test' = IF first_test = None THEN last_test' ELSE first_test
    /\ UNCHANGED <<tree, data_aug, shuffle_perm, pos, lpc, ds_train, ds_test,
                   first_train, last_train>>
    /\ UNCHANGED notLoadVars

\* The folders os.walk can yield: the root, whose name is what follows the
\* last separator of load_dir (empty when load_dir ends with one), then the
\* folders below it.
Folders(names) == [name : names, files : FileLists]

Trees ==
    {<<root>> \o subs :
        root \in Folders({"", "train", "test", "data"}),
        subs \in UNION {[1..n -> Folders({"train", "test", "other"})]
                           : n \in 0..MaxSubfolders}}

\* The samples of the root's .tfrecord files
RootSamples(t) ==
    Interleave(FullPaths(1, TfrecordFiles(t[1].files)), 1, 1)

InitLoad ==
    /\ tree \in Trees
    /\ data_aug \in BOOLEAN
    /\ shuffle_perm \in
          IF tree[1].name = ""
          THEN Perms(Len(RootSamples(tree)))
          ELSE {<<>>}
    /\ pos = 1
    /\ lpc = "walk"
    /\ ds_train = None
    /\ ds_test = None
    /\ first_train = None
    /\ last_train = None
    /\ first_test = None
    /\ last_test = None

LoadIdle ==
    /\ tree = <<>>
    /\ data_aug = TRUE
    /\ shuffle_perm = <<>>
    /\ pos = 1
    /\ lpc = "idle"
    /\ ds_train = None
    /\ ds_test = None
    /\ first_train = None
    /\ last_train = None
    /\ first_test = None
    /\ last_test = None

NextLoad ==
    \/ WalkStep
    \/ WalkEnd
    \/ Finish
    \/ IterTrain
    \/ IterTest

\* ------------------------------------------------- train_step, test_step
\* The vocabulary; a token is its index (FLAGS.c2n_map_lm).
Vocab == <<"<sos>", "<eos>", "a">>

c2n_map_lm(ch) == CHOOSE i \in DOMAIN Vocab : Vocab[i] = ch

BatchSizes == {1, 2}

\* The logits the decoder can give for one sample and one time step: one
\* class ahead of the others, or all classes equal.
Logits ==
    {[c \in DOMAIN Vocab |-> IF c = w THEN 1 ELSE 0] : w \in DOMAIN Vocab}
        \cup {[c \in DOMAIN Vocab |-> 0]}

\* tf.argmax(v, -1): the first class with the largest value
Argmax(v) ==
    Min({c \in DOMAIN v : \A d \in DOMAIN v : v[d] <= v[c]})

\* The target sequences train_step can be handed
TargetSeqs ==
    UNION {[1..b -> UNION {[1..t -> DOMAIN Vocab] : t \in 1..MaxTargetLen}]
              : b \in BatchSizes}

\* (mutant) the decoder is started from <sos> instead of the ground truth
DecoderInputFromSos(target) ==
    [i \in DOMAIN target |-> <<c2n_map_lm("<sos>")>>]

\* train_step: what the decoder is called on
DecoderInputTrain(target) == target

\* train_step(encoder, decoder, input_seq, target_seq_in, target_seq_out,
\* optimizer): one encoder call, one decoder call, loss, accuracy and one
\* optimizer update.
TrainStep(target) ==
    /\ lm_pc = "idle"
    /\ \A i, j \in DOMAIN target : Len(target[i]) = Len(target[j])
    /\ \E n \in 1..MaxInputLen : input_seq' = [batch |-> Len(target), len |-> n]
    /\ target_seq_in' = target
    /\ en_calls' = en_calls + 1
    /\ de_calls' = Append(de_calls, DecoderInputTrain(target))
    /\ lm_result' = [kind |-> "loss_acc"]
    /\ lm_pc' = "train_done"
    /\ UNCHANGED <<de_inputs, full_outputs>>
    /\ UNCHANGED notLmVars

\* test_step up to its loop: an input shorter than min_len returns 0.5;
\* otherwise the encoder is called and de_inputs starts as <sos>.
TestBegin(b, n) ==
    /\ lm_pc = "idle"
    /\ input_seq' = [batch |-> b, len |-> n]
    /\ IF n < min_len
       THEN /\ lm_result' = [kind |-> "constant", value |-> "0.5"]
            /\ lm_pc' = "test_done"
            /\ UNCHANGED <<en_calls, de_inputs>>
       ELSE /\ en_calls' = en_calls + 1
            /\ de_inputs' = [i \in 1..b |-> <<c2n_map_lm("<sos>")>>]
            /\ lm_pc' = "decode"
            /\ UNCHANGED lm_result
    /\ UNCHANGED <<target_seq_in, de_calls, full_outputs>>
    /\ UNCHANGED notLmVars

\* (mutant) the loop ends on <eos> only
LoopExitOnEosOnly(last_class, full) ==
    last_class = c2n_map_lm("<eos>")

\* test_step: the condition under which `while True` is left
LoopExit(last_class, full) ==
    last_class = c2n_map_lm("<eos>") \/ Len(full[1]) >= max_length

\* One pass of test_step's `while True`: the decoder is called on de_inputs,
\* its output joins full_outputs, de_inputs becomes the argmax of the output,
\* and the loop ends on <eos> for the first sample or at max_length.
TestDecode ==
    /\ lm_pc = "decode"
    /\ \E de_outputs \in [1..input_seq.batch -> Logits] :
          LET full == IF full_outputs = None
                      THEN [i \in 1..input_seq.batch |-> <<de_outputs[i]>>]
                      ELSE [i \in 1..input_seq.batch |->
                               Append(full_outputs.logits[i], de_outputs[i])]
              nxt == [i \in 1..input_seq.batch |-> <<Argmax(de_outputs[i])>>]
              last_class == nxt[1][Len(nxt[1])]
          IN  /\ de_calls' = Append(de_calls, de_inputs)
              /\ full_outputs' = [logits |-> full]
              /\ de_inputs' = nxt
              /\ IF LoopExit(last_class, full)
                 THEN /\ lm_result' = [kind |-> "accuracy"]
                      /\ lm_pc' = "test_done"
                 ELSE UNCHANGED <<lm_result, lm_pc>>
    /\ UNCHANGED <<input_seq, target_seq_in, en_calls>>
    /\ UNCHANGED notLmVars

LmIdle ==
    /\ lm_pc = "idle"
    /\ input_seq = None
    /\ target_seq_in = <<>>
    /\ en_calls = 0
    /\ de_calls = <<>>
    /\ de_inputs = <<>>
    /\ full_outputs = None
    /\ lm_result = None

NextLM ==
    \/ \E target \in TargetSeqs : TrainStep(target)
    \/ \E b \in BatchSizes, n \in 0..MaxInputLen : TestBegin(b, n)
    \/ TestDecode

\* ------------------------------------------------------------ main_train
\* The accuracies test_step can return, in halves: 0, 0.5 and 1.
Accuracies == {0, 1, 2}

RECURSIVE Factorial(_)
Factorial(n) == IF n <= 1 THEN 1 ELSE n * Factorial(n - 1)

\* Floats are kept as exact fractions.  The running mean
\* accuracy_sum / (batch + 1) is kept as a multiple of 1 / Denominator, which
\* every batch + 1 divides.
Denominator == Factorial(MaxTestBatches)

RunningMean(sum, index) == (sum * Denominator) \div (index + 1)

RECURSIVE SumSeq(_)
SumSeq(s) == IF s = <<>> THEN 0 ELSE s[1] + SumSeq(Tail(s))

\* tf.reduce_mean of a list, as the fraction sum / n
reduce_mean(s) == [sum |-> SumSeq(s), n |-> Len(s)]

\* a > b for two fractions with positive denominators
Greater(a, b) == a.sum * b.n > b.sum * a.n

\* One pass of `for e in range(n_epochs)` up to the test loop, with a test
\* dataset: the loop over train_ds (train_step on every batch; it fills
\* losses and accuracies, which main_train never reads), then
\* accuracy_sum = 0. and the start of the loop over test_ds.
TrainEpoch ==
    /\ mt_pc = "epoch"
    /\ epoch < n_epochs
    /\ test_ds # None
    /\ accuracy_sum' = 0
    /\ test_batch' = 0
    /\ mt_pc' = "test"
    /\ UNCHANGED <<n_epochs, test_ds, epoch, test_accuracies,
                   epoch_mean_test_accuracy, saves, epoch_accuracy>>
    /\ UNCHANGED notTrainVars

\* One pass of `for e in range(n_epochs)` without a test dataset: the loop
\* over train_ds, then a checkpoint every second epoch.
TrainEpochBlind ==
    /\ mt_pc = "epoch"
    /\ epoch < n_epochs
    /\ test_ds = None
    /\ saves' = IF (epoch + 1) % 2 = 0 THEN saves \cup {epoch} ELSE saves
    /\ epoch' = epoch + 1
    /\ UNCHANGED <<mt_pc, n_epochs, test_ds, test_batch, accuracy_sum,
                   test_accuracies, epoch_mean_test_accuracy, epoch_accuracy>>
    /\ UNCHANGED notTrainVars

\* One pass of the loop over test_ds: test_step returns accuracy, which is
\* added to accuracy_sum; every log_period-th batch, from batch 0 on, the
\* running mean is appended to test_accuracies.
TestBatch(accuracy) ==
    /\ mt_pc = "test"
    /\ test_batch < test_ds.batches
    /\ accuracy_sum' = accuracy_sum + accuracy
    /\ test_accuracies' =
          IF test_batch % log_period = 0
          THEN Append(test_accuracies, RunningMean(accuracy_sum', test_batch))
          ELSE test_accuracies
    /\ test_batch' = test_batch + 1
    /\ UNCHANGED <<mt_pc, n_epochs, test_ds, epoch, epoch_mean_test_accuracy,
                   saves, epoch_accuracy>>
    /\ UNCHANGED notTrainVars

\* After the loop over test_ds: the mean of test_accuracies is appended to
\* epoch_mean_test_accuracy and the checkpoint is saved if the new entry is
\* greater than the one before it.
TestEnd ==
    /\ mt_pc = "test"
    /\ test_batch = test_ds.batches
    /\ epoch_mean_test_accuracy' =
          Append(epoch_mean_test_accuracy, reduce_mean(test_accuracies))
    /\ LET n == Len(epoch_mean_test_accuracy')
       IN  saves' = IF Greater(epoch_mean_test_accuracy'[n],
                               epoch_mean_test_accuracy'[n - 1])
                    THEN saves \cup {epoch}
                    ELSE saves
    /\ epoch_accuracy' =
          Append(epoch_accuracy, [sum |-> accuracy_sum, n |-> test_batch])
    /\ epoch' = epoch + 1
    /\ mt_pc' = "epoch"
    /\ UNCHANGED <<n_epochs, test_ds, test_batch, accuracy_sum, test_accuracies>>
    /\ UNCHANGED notTrainVars

\* `for e in range(n_epochs)` is exhausted: main_train returns.
Return ==
    /\ mt_pc = "epoch"
    /\ epoch >= n_epochs
    /\ mt_pc' = "returned"
    /\ UNCHANGED <<n_epochs, test_ds, epoch, test_batch, accuracy_sum,
                   test_accuracies, epoch_mean_test_accuracy, saves,
                   epoch_accuracy>>
    /\ UNCHANGED notTrainVars

\* main_train is entered: test_accuracies = [],
\* epoch_mean_test_accuracy = [0., ].
InitTrain ==
    /\ mt_pc = "epoch"
    /\ n_epochs \in 0..MaxEpochs
    /\ test_ds \in {None} \cup {[batches |-> b] : b \in 1..MaxTestBatches}
    /\ epoch = 0
    /\ test_batch = 0
    /\ accuracy_sum = 0
    /\ test_accuracies = <<>>
    /\ epoch_mean_test_accuracy = <<[sum |-> 0, n |-> 1]>>
    /\ saves = {}
    /\ epoch_accuracy = <<>>

MtIdle ==
    /\ mt_pc = "idle"
    /\ n_epochs = 0
    /\ test_ds = None
    /\ epoch = 0
    /\ test_batch = 0
    /\ accuracy_sum = 0
    /\ test_accuracies = <<>>
    /\ epoch_mean_test_accuracy = <<[sum |-> 0, n |-> 1]>>
    /\ saves = {}
    /\ epoch_accuracy = <<>>

NextTrain ==
    \/ TrainEpoch
    \/ TrainEpochBlind
    \/ \E accuracy \in Accuracies : TestBatch(accuracy)
    \/ TestEnd
    \/ Return

InitBucket ==
    /\ windows = [k \in 0..(num_buckets - 1) |-> <<>>]
    /\ eof = FALSE
    /\ batch = <<>>
    /\ stage = "idle"
    /\ sa_time = None
    /\ sa_freq = None
    /\ tmasked = <<>>
    /\ fmasked = <<>>

NextBucket ==
    \/ \E e \in Records : Feed(e)
    \/ EndOfInput
    \/ \E k \in 0..(num_buckets - 1) : Flush(k)
    \/ Deliver

InitBucketAndBatch == InitBucket /\ LoadIdle /\ LmIdle /\ MtIdle

SpecBucket == InitBucketAndBatch /\ [][NextBucket]_vars

\* One call of train_step or of test_step
InitLM == InitBucket /\ LoadIdle /\ LmIdle /\ MtIdle

SpecLM == InitLM /\ [][NextLM]_vars

\* One call of test_step that runs on: the interpreter keeps executing the
\* `while True` loop, so a pass that can be made is made.
InitLMFair == InitBucket /\ LoadIdle /\ LmIdle /\ MtIdle

SpecLMFair == InitLMFair /\ [][NextLM]_vars /\ WF_vars(TestDecode)

\* One call of main_train
InitMainTrain == InitBucket /\ LoadIdle /\ LmIdle /\ InitTrain

SpecTrain == InitMainTrain /\ [][NextTrain]_vars

\* load_datasets up to its return, then iterations over the two datasets
InitLoadDatasets == InitBucket /\ InitLoad /\ LmIdle /\ MtIdle

SpecLoad == InitLoadDatasets /\ [][NextLoad]_vars

\* The batches _bucket_and_batch can emit: up to batch_size_per_GPU records
\* of one bucket, padded.
BucketedBatches ==
    LET ws == UNION {[1..n -> Records] : n \in 1..batch_size_per_GPU}
    IN  {PaddedBatch(w) : w \in {v \in ws : \A i, j \in DOMAIN v :
                                    BucketOf(element_length_func(v[i]))
                                        = BucketOf(element_length_func(v[j]))}}

\* load_datasets(data_aug=True, bandwidth_time, bandwidth_freq) with one
\* batch out of _bucket_and_batch about to go through the two maps.
InitAug ==
    /\ windows = [k \in 0..(num_buckets - 1) |-> <<>>]
    /\ eof = TRUE
    /\ batch \in BucketedBatches
    /\ stage = "batched"
    /\ \E bt \in 1..MaxBandTime : sa_time = SpecAugInit(0, bt)
    /\ \E bf \in 1..num_features : sa_freq = SpecAugInit(1, bf)
    /\ tmasked = <<>>
    /\ fmasked = <<>>

NextAug ==
    \/ TimeMask
    \/ FreqMask
    \/ Deliver

InitSpecAug == InitAug /\ LoadIdle /\ LmIdle /\ MtIdle

SpecAug == InitSpecAug /\ [][NextAug]_vars

\* ================================================================ claims
\* The boundaries as the claims state them: min_time, min_time + bucket_width,
\* ... up to max_time.
Boundaries == {t \in min_time..max_time : (t - min_time) % bucket_width = 0}

SameInterval(a, b) == \A t \in Boundaries : (a < t) <=> (b < t)

SxMax(b) == Max({b[i].src.n : i \in DOMAIN b})

\* out is `inp` without the entries lb+1 .. lb+bw, the others kept in order
BandRemoved(inp, out, lb, bw) ==
    /\ Len(out) = Len(inp) - bw
    /\ \A k \in 1..Len(out) : out[k] = IF k <= lb THEN inp[k] ELSE inp[k + bw]

\* out is `inp` with the entries lb+1 .. lb+bw replaced by zero, same shape
BandZeroed(inp, out, lb, bw, zero) ==
    /\ Len(out) = Len(inp)
    /\ \A k \in 1..Len(out) :
          out[k] = IF lb < k /\ k <= lb + bw THEN zero ELSE inp[k]

ZeroRow == [j \in 1..num_features |-> 0]

\* C1 (as claimed): time masking succeeds on every bucketed batch, and every
\* sample of the batch comes out with max(sx) - B time rows.  Stated for the
\* batches whose samples are all longer than the band B: in the others there
\* is no room for a band of B rows.
C1_TimeMaskKeepsBatchCompatible ==
    (batch # <<>> /\ sa_time # None
        /\ \A i \in DOMAIN batch : batch[i].src.n > sa_time.bandwidth) =>
        /\ stage # "error_time"
        /\ tmasked # <<>> =>
              \A i \in DOMAIN tmasked :
                  Len(tmasked[i].x) = SxMax(batch) - sa_time.bandwidth

\* C2 (as claimed): masking keeps the shape of the matrix and sets one
\* contiguous band of rows (time) or columns (frequency) to zero, the entries
\* outside the band being unchanged.
C2_MaskZeroesBand ==
    /\ tmasked # <<>> =>
          \A i \in DOMAIN tmasked :
              \E lb \in 0..MaxLen, bw \in 0..MaxLen :
                  BandZeroed(batch[i].x, tmasked[i].x, lb, bw, ZeroRow)
    /\ fmasked # <<>> =>
          \A i \in DOMAIN fmasked :
              /\ Len(fmasked[i].x) = Len(tmasked[i].x)
              /\ \E lb \in 0..num_features, bw \in 0..num_features :
                    \A r \in DOMAIN fmasked[i].x :
                        BandZeroed(tmasked[i].x[r], fmasked[i].x[r], lb, bw, 0)

\* C2 (amended): masking removes one contiguous band instead of zeroing it.
\* Time masking keeps, of the sx data rows of a sample, those outside a band
\* of B - (max(sx) - sx) rows and drops the padding rows, leaving
\* max(sx) - B rows; frequency masking keeps the columns outside a band of
\* B columns, leaving num_features - B columns.  The kept entries are
\* unchanged and in order, and y, sx, sy are unchanged.
C2_MaskRemovesBand ==
    /\ tmasked # <<>> =>
          \A i \in DOMAIN tmasked :
              LET e == batch[i]
                  bw == sa_time.bandwidth - (SxMax(batch) - e.src.n)
              IN  /\ \E lb \in 0..(e.src.n - bw) :
                        BandRemoved(SubSeq(e.x, 1, e.src.n), tmasked[i].x, lb, bw)
                  /\ Len(tmasked[i].x) = SxMax(batch) - sa_time.bandwidth
                  /\ \A r \in DOMAIN tmasked[i].x : Len(tmasked[i].x[r]) = num_features
                  /\ tmasked[i].y = e.y /\ tmasked[i].sx = e.sx /\ tmasked[i].sy = e.sy
    /\ fmasked # <<>> =>
          \A i \in DOMAIN fmasked :
              LET e == tmasked[i]
                  bw == sa_freq.bandwidth
              IN  /\ Len(fmasked[i].x) = Len(e.x)
                  /\ \E lb \in 0..(num_features - bw) :
                        \A r \in DOMAIN e.x :
                            BandRemoved(e.x[r], fmasked[i].x[r], lb, bw)
                  /\ fmasked[i].y = e.y /\ fmasked[i].sx = e.sx /\ fmasked[i].sy = e.sy

\* C2 witness: a batch of two samples of different length went through both
\* maskings.
C2_Witness ==
    /\ stage = "freq_masked"
    /\ Len(batch) = 2
    /\ batch[1].src.n < batch[2].src.n
    /\ sa_time.bandwidth - (SxMax(batch) - batch[1].src.n) > 0

\* C3: every batch emitted by _bucket_and_batch holds at most
\* batch_size_per_GPU samples, all with their feature length in one and the
\* same bucket interval.
C3_BatchWithinOneBucket ==
    batch # <<>> =>
        /\ Len(batch) <= batch_size_per_GPU
        /\ \A i, j \in DOMAIN batch : SameInterval(batch[i].src.n, batch[j].src.n)

\* C3 witness: a full batch of samples of different lengths was emitted.
C3_Witness ==
    /\ stage = "batched"
    /\ Len(batch) = batch_size_per_GPU
    /\ \E i, j \in DOMAIN batch : batch[i].src.n # batch[j].src.n

\* C4: in every emitted batch the features have max(sx) rows and the labels
\* max(sy) entries; below sx (sy) they are the stored data, from there on the
\* padding value 0 (-1); sx and sy are the unpadded lengths.
C4_DynamicPadding ==
    batch # <<>> =>
        LET rows == Max({batch[i].src.n : i \in DOMAIN batch})
            labs == Max({batch[i].src.m : i \in DOMAIN batch})
        IN  \A i \in DOMAIN batch :
                LET e == batch[i]
                    n == e.src.n
                    m == e.src.m
                IN  /\ Len(e.x) = rows
                    /\ Len(e.y) = labs
                    /\ e.sx = n
                    /\ e.sy = m
                    /\ \A t \in 1..rows :
                          e.x[t] = IF t <= n THEN RecordX(n, m)[t] ELSE ZeroRow
                    /\ \A k \in 1..labs :
                          e.y[k] = IF k <= m THEN RecordY(n, m)[k] ELSE -1

\* C4 witness: an emitted batch in which one sample's features and one
\* sample's labels are padded.
C4_Witness ==
    /\ stage = "batched"
    /\ \E i \in DOMAIN batch : batch[i].sx < Len(batch[i].x)
    /\ \E i \in DOMAIN batch : batch[i].sy < Len(batch[i].y)

\* C10: frequency masking with 0 < b < num_features succeeds, and every
\* output sample has num_features - b columns and the time rows of its
\* input, its columns being the input's columns outside one band
\* [lb, lb + b), in their order.
C10_FreqMaskRemovesColumns ==
    LET b == sa_freq.bandwidth
    IN  (sa_freq # None /\ 0 < b /\ b < num_features) =>
            /\ stage # "error_freq"
            /\ fmasked # <<>> =>
                  \A i \in DOMAIN fmasked :
                      /\ Len(fmasked[i].x) = Len(tmasked[i].x)
                      /\ \A r \in DOMAIN fmasked[i].x :
                            Len(fmasked[i].x[r]) = num_features - b
                      /\ \E lb \in 0..(num_features - b) :
                            \A r \in DOMAIN fmasked[i].x, c \in 1..(num_features - b) :
                                fmasked[i].x[r][c] =
                                    tmasked[i].x[r][IF c <= lb THEN c ELSE c + b]

\* C10 witness: a batch went through frequency masking with a band that
\* is neither empty nor the whole matrix, and with more than one column left.
C10_Witness ==
    /\ stage = "freq_masked"
    /\ sa_freq.bandwidth = 1
    /\ Len(fmasked) = 2

\* ------------------------------------------------- claims on load_datasets
\* The joined root case, read off the directory tree: the name of the root
\* is empty and it holds a .tfrecord file.
Joined(t) ==
    /\ t # <<>>
    /\ t[1].name = ""
    /\ \E f \in Range(t[1].files) : ".tfrecord" \in Range(f)

\* The full paths of the .tfrecord files of the folder walked p-th
TfrecordPathsOf(p) ==
    {<<p, f>> : f \in {g \in Range(tree[p].files) : ".tfrecord" \in Range(g)}}

\* The samples stored under a set of full paths
SamplesOf(paths) ==
    UNION {{<<fp, k>> : k \in 1..RecordsIn(fp[2])} : fp \in paths}

ReadsOnlyFolderNamed(ds, yielded, name) ==
    \E p \in DOMAIN tree :
        /\ tree[p].name = name
        /\ Range(ds.file_names) = TfrecordPathsOf(p)
        /\ yielded # None => Range(yielded.elems) = SamplesOf(TfrecordPathsOf(p))

\* C5: when the joined root case does not apply, ds_train reads exactly the
\* .tfrecord files of a folder named 'train' and ds_test those of a folder
\* named 'test'; nothing of any other folder is read, and what an iteration
\* yields are the samples of those files.
C5_SplitByFolderName ==
    (lpc = "returned" /\ ~Joined(tree)) =>
        /\ ReadsOnlyFolderNamed(ds_train, last_train, "train")
        /\ ReadsOnlyFolderNamed(ds_test, last_test, "test")

\* C5 witness: load_datasets returned for a tree that also has a folder of
\* another name with .tfrecord files, and both datasets were iterated.
C5_Witness ==
    /\ lpc = "returned"
    /\ ~Joined(tree)
    /\ last_train # None
    /\ last_test # None
    /\ \E p \in DOMAIN tree :
          tree[p].name \notin {"train", "test"} /\ TfrecordPathsOf(p) # {}

StagesRead == <<"list_files", "interleave_parse", "map_sizes">>

StagesMasks == IF data_aug THEN <<"time_mask", "freq_mask">> ELSE <<>>

\* C6 (as claimed): ds_train is read, bucket-batched, masked in time then
\* frequency iff data_aug, shuffled, prefetched; ds_test is read,
\* bucket-batched and prefetched, never masked or shuffled.
C6_StageOrder ==
    lpc = "returned" =>
        /\ ds_train.ops = StagesRead \o <<"bucket_batch">> \o StagesMasks
                              \o <<"shuffle", "prefetch">>
        /\ ds_test.ops = StagesRead \o <<"bucket_batch", "prefetch">>

\* C6 (amended): the stage order holds as claimed when the split is by
\* folder name; in the joined root case both datasets also go, between
\* reading and bucket-batching, through the one shuffle of the joined
\* dataset followed by take (ds_train) or skip (ds_test).  ds_test is never
\* masked and has no shuffle after the split.
C6_StageOrderWithJoinedSplit ==
    lpc = "returned" =>
        /\ ds_train.ops =
              StagesRead \o (IF Joined(tree) THEN <<"shuffle", "take">> ELSE <<>>)
                  \o <<"bucket_batch">> \o StagesMasks \o <<"shuffle", "prefetch">>
        /\ ds_test.ops =
              StagesRead \o (IF Joined(tree) THEN <<"shuffle", "skip">> ELSE <<>>)
                  \o <<"bucket_batch", "prefetch">>

\* C6 witness: load_datasets returned with data augmentation in the joined
\* root case.
C6_Witness == lpc = "returned" /\ data_aug /\ Joined(tree)

\* C8: load_datasets returns only with both datasets assigned; when the tree
\* has no folder named 'train' or none named 'test' (and the joined root case
\* is not taken) it ends with an exception.
C8_NoDatasetNoResult ==
    /\ lpc = "returned" => ds_train # None /\ ds_test # None
    /\ (lpc \in {"returned", "raised"} /\ ~Joined(tree)
            /\ (\/ ~\E p \in DOMAIN tree : tree[p].name = "train"
                \/ ~\E p \in DOMAIN tree : tree[p].name = "test"))
          => lpc = "raised"

\* C8 witness: the walk ended with a training dataset and no test dataset,
\* and load_datasets raised.
C8_Witness ==
    /\ lpc = "raised"
    /\ pos > Len(tree)
    /\ ds_train # None
    /\ ds_test = None

\* C9 (as claimed): in the joined root case both datasets read the root's
\* .tfrecord files only; ds_train yields the first num_train_data samples of
\* the shuffled dataset and ds_test the rest; the two are disjoint, together
\* hold every sample once, and are the same on every iteration.
C9_JoinedSplitIsFixedPartition ==
    (lpc = "returned" /\ Joined(tree)) =>
        LET all == SamplesOf(TfrecordPathsOf(1))
        IN  /\ Range(ds_train.file_names) = TfrecordPathsOf(1)
            /\ Range(ds_test.file_names) = TfrecordPathsOf(1)
            /\ first_train = last_train
            /\ first_test = last_test
            /\ (last_train # None /\ last_test # None) =>
                  /\ Range(last_train.elems) \cap Range(last_test.elems) = {}
                  /\ Range(last_train.elems) \cup Range(last_test.elems) = all
                  /\ Len(last_train.elems) + Len(last_test.elems) = Cardinality(all)
                  /\ Len(last_train.elems) =
                        IF Cardinality(all) < num_train_data THEN Cardinality(all)
                                                             ELSE num_train_data

\* ------------------------------------------- claims on train_step/test_step
\* C7: train_step calls the decoder once, on target_seq_in as it is, while
\* test_step calls it first on <sos> and then, each time, on the argmax of
\* the output of the call before.
C7_TeacherForcing ==
    /\ lm_pc = "train_done" => de_calls = <<target_seq_in>>
    /\ lm_pc \in {"decode", "test_done"} =>
          \A k \in DOMAIN de_calls :
              \A i \in 1..input_seq.batch :
                  de_calls[k][i] =
                      IF k = 1 THEN <<c2n_map_lm("<sos>")>>
                      ELSE <<Argmax(full_outputs.logits[i][k - 1])>>

\* C7 witness: train_step ran on a batch of two target sequences of two
\* tokens that differ from <sos>.
C7_Witness ==
    /\ lm_pc = "train_done"
    /\ Len(target_seq_in) = 2
    /\ Len(target_seq_in[1]) = 2
    /\ target_seq_in[1][2] # c2n_map_lm("<sos>")

\* C12 (safety part): in test_step the decoder has been called at most
\* max_length times and full_outputs holds one time step per call; when
\* test_step returned an accuracy it made at least one call, and fewer than
\* max_length calls only if the last token predicted for the first sample is
\* <eos>; an input shorter than min_len has returned the constant 0.5 with
\* no encoder and no decoder call.
DecoderCallsBounded ==
    lm_pc \in {"decode", "test_done"} =>
        /\ Len(de_calls) <= max_length
        /\ full_outputs = None => de_calls = <<>>
        /\ full_outputs # None =>
              \A i \in 1..input_seq.batch :
                  Len(full_outputs.logits[i]) = Len(de_calls)
        /\ (lm_pc = "test_done" /\ input_seq.len >= min_len) =>
              /\ lm_result = [kind |-> "accuracy"]
              /\ en_calls = 1
              /\ Len(de_calls) >= 1
              /\ Len(de_calls) < max_length =>
                    Argmax(full_outputs.logits[1][Len(de_calls)])
                        = c2n_map_lm("<eos>")
        /\ input_seq.len < min_len =>
              /\ lm_pc = "test_done"
              /\ lm_result = [kind |-> "constant", value |-> "0.5"]
              /\ en_calls = 0
              /\ de_calls = <<>>

\* C12: the greedy decoding loop of test_step terminates: it makes at least
\* one and at most max_length decoder calls, full_outputs grows by one time
\* step per call, it stops before max_length only on <eos> predicted for the
\* first sample, and an input shorter than min_len returns 0.5 without any
\* encoder or decoder call.
C12_GreedyDecodingTerminates ==
    /\ []DecoderCallsBounded
    /\ (lm_pc = "decode") ~> (lm_pc = "test_done")

\* C12 witness: test_step returned after two decoder calls, before
\* max_length, on a batch of two samples.
C12_Witness ==
    /\ lm_pc = "test_done"
    /\ lm_result = [kind |-> "accuracy"]
    /\ input_seq.batch = 2
    /\ Len(de_calls) = 2
    /\ Len(de_calls) < max_length

\* ------------------------------------------------------ claims on main_train
\* The mean of the accuracies test_step returned in the epoch with index k
\* (a fraction); before the first epoch, 0.0.
EpochMean(k) == IF k < 0 THEN [sum |-> 0, n |-> 1] ELSE epoch_accuracy[k + 1]

\* C11: with a test dataset, the checkpoint is saved at the end of epoch k
\* exactly when the mean test accuracy of epoch k is strictly greater than
\* the mean test accuracy of epoch k - 1 (for the first epoch: than 0.0).
C11_CheckpointOnImprovement ==
    test_ds # None =>
        \A k \in 0..(Len(epoch_accuracy) - 1) :
            (k \in saves) <=> Greater(EpochMean(k), EpochMean(k - 1))

====
